---- MODULE Spec2Model ----
(***************************************************************************)
(* State-machine model of SphereOLED/main.c: a single-threaded epoll       *)
(* dispatcher with a button poll timer, an LED blink timer, a SIGTERM      *)
(* handler and an ordered teardown.                                        *)
(*                                                                         *)
(* The main flow is modelled statement group by statement group (pc), so   *)
(* that the asynchronous TerminationHandler can preempt it between any two *)
(* library calls.  The kernel side (descriptor table, output line level,   *)
(* armed timer period, timer readiness) is modelled next to the program's  *)
(* own variables.  Variables whose comment says "history" record what has  *)
(* happened and are never read by the program's actions.                   *)
(***************************************************************************)
EXTENDS Integers, Sequences, FiniteSets

(* ---------------------------------------------------------------------- *)
(* Bounds of the history counters (they saturate; they guard nothing).     *)
(* ---------------------------------------------------------------------- *)
MaxPresses == 5
MaxBlinkFirings == 4

(* ---------------------------------------------------------------------- *)
(* Program constants.                                                      *)
(* ---------------------------------------------------------------------- *)
GPIO_Value_Low == "Low"
GPIO_Value_High == "High"
GPIO_Value_Type == {GPIO_Value_Low, GPIO_Value_High}

numBlinkIntervals == 3
\* tv_nsec of the three entries (tv_sec is 0 in all of them)
blinkIntervals == <<125000000, 250000000, 500000000>>

InvalidFd == 0 - 1

VARIABLES
    pc,                         \* position of the main flow
    epollFd,
    ledBlinkRateButtonGpioFd,
    buttonPollTimerFd,
    blinkingLedGpioFd,
    blinkingLedTimerFd,
    i2cFd,
    buttonState,
    ledState,
    blinkIntervalIndex,
    terminationRequired,
    newButtonState,             \* local of ButtonTimerEventHandler ("unset" outside it)
    closeIdx,                   \* CloseFdAndPrintError calls completed in teardown
    exitCode,                   \* "running" until main returns
    \* kernel / hardware side
    openLog,                    \* resources created, in creation order; entry k has descriptor k + 2
    closeLog,                   \* descriptors passed to close(), in order
    gpioOut,                    \* level driven on the output line ("unset" before it is opened)
    timerPeriod,                \* armed period of the blink timer (0 before it is created)
    pollReady,                  \* the poll timer has an unconsumed expiration
    blinkReady,                 \* the blink timer has an unconsumed expiration
    interrupted,                \* a signal arrived while blocked in epoll_wait
    \* history
    nPresses,                   \* press events so far (saturates at MaxPresses)
    nBlinkFirings,              \* completed blink handler invocations (saturates)
    prevRead,                   \* level read by the last poll tick that ran its comparison
    errs,                       \* names of the calls that have failed
    initLog,                    \* initialization steps executed, in order
    waitCalled,                 \* WaitForEventAndCallHandler has been called
    handlerRan,                 \* an event handler has been invoked
    handlersSinceFlag,          \* handlers invoked with the flag already true (counts to 2)
    safeWrite                   \* outcome of teardown's GPIO_SetValue: "none", "ok", "failed"

fdVars == <<epollFd, ledBlinkRateButtonGpioFd, buttonPollTimerFd,
            blinkingLedGpioFd, blinkingLedTimerFd, i2cFd>>
appVars == <<buttonState, ledState, blinkIntervalIndex, newButtonState>>
kernelVars == <<openLog, closeLog, gpioOut, timerPeriod>>
readyVars == <<pollReady, blinkReady>>
histVars == <<nPresses, nBlinkFirings, prevRead, initLog,
              waitCalled, handlerRan, handlersSinceFlag, safeWrite>>
vars == <<pc, fdVars, appVars, terminationRequired, closeIdx, exitCode,
          kernelVars, readyVars, interrupted, histVars, errs>>

(* ---------------------------------------------------------------------- *)
(* Helpers                                                                 *)
(* ---------------------------------------------------------------------- *)
Range(s) == {s[i] : i \in 1..Len(s)}

Min(a, b) == IF a < b THEN a ELSE b

\* The descriptor the kernel hands out for the next resource: 0, 1 and 2 are
\* the standard streams, descriptors are given out in order of creation.
NextFd == Len(openLog) + 3

\* The resource a descriptor number names (descriptors are never reused here:
\* nothing is opened after the first close).
ResourceOf(fd) == openLog[fd - 2]

IsOpenFd(fd) == fd >= 0 /\ fd \notin Range(closeLog)

Init ==
    /\ pc = "init_sigaction"
    /\ epollFd = InvalidFd
    /\ ledBlinkRateButtonGpioFd = InvalidFd
    /\ buttonPollTimerFd = InvalidFd
    /\ blinkingLedGpioFd = InvalidFd
    /\ blinkingLedTimerFd = InvalidFd
    /\ i2cFd = InvalidFd
    /\ buttonState = GPIO_Value_High
    /\ ledState = GPIO_Value_High
    /\ blinkIntervalIndex = 0
    /\ terminationRequired = FALSE
    /\ newButtonState = "unset"
    /\ closeIdx = 0
    /\ exitCode = "running"
    /\ openLog = <<>>
    /\ closeLog = <<>>
    /\ gpioOut = "unset"
    /\ timerPeriod = 0
    /\ pollReady = FALSE
    /\ blinkReady = FALSE
    /\ interrupted = FALSE
    /\ nPresses = 0
    /\ nBlinkFirings = 0
    /\ prevRead = "unset"
    /\ errs = {}
    /\ initLog = <<>>
    /\ waitCalled = FALSE
    /\ handlerRan = FALSE
    /\ handlersSinceFlag = 0
    /\ safeWrite = "none"

\* a signal handler that also switches the LED state off
TerminationHandlerTouchingLed ==
    /\ pc \notin {"init_sigaction", "done"}
    /\ terminationRequired' = TRUE
    /\ ledState' = GPIO_Value_High
    /\ interrupted' = (interrupted \/ pc = "wait")
    /\ UNCHANGED <<pc, fdVars, buttonState, blinkIntervalIndex, newButtonState,
                   closeIdx, exitCode, kernelVars, readyVars, histVars, errs>>

(* ---------------------------------------------------------------------- *)
(* TerminationHandler: the SIGTERM handler.  It is installed by the first  *)
(* step of InitPeripheralsAndHandlers and can run between any two steps of *)
(* the main flow until main returns.  A signal that arrives while the main *)
(* flow is blocked in epoll_wait makes the wait return EINTR.              *)
(* ---------------------------------------------------------------------- *)
TerminationHandler ==
    /\ pc \notin {"init_sigaction", "done"}
    /\ terminationRequired' = TRUE
    /\ interrupted' = (interrupted \/ pc = "wait")
    /\ UNCHANGED <<pc, fdVars, appVars, closeIdx, exitCode, kernelVars,
                   readyVars, histVars, errs>>

(* ---------------------------------------------------------------------- *)
(* InitPeripheralsAndHandlers, one action per library call.                *)
(* A failed step returns -1 (pc = "init_failed").                          *)
(* ---------------------------------------------------------------------- *)
InitUnchanged ==
    UNCHANGED <<appVars, terminationRequired, closeIdx, exitCode, closeLog,
                readyVars, interrupted, nPresses, nBlinkFirings, prevRead,
                waitCalled, handlerRan, handlersSinceFlag, safeWrite>>

\* lines 134-137: the result of sigaction is not examined; with a valid
\* signal number and a valid action it has no failure case.
InitSigaction ==
    /\ pc = "init_sigaction"
    /\ pc' = "init_epoll"
    /\ initLog' = Append(initLog, "sigaction")
    /\ UNCHANGED <<fdVars, kernelVars, errs>>
    /\ InitUnchanged

\* lines 139-142
InitEpoll ==
    /\ pc = "init_epoll"
    /\ initLog' = Append(initLog, "CreateEpollFd")
    /\ \/ /\ epollFd' = NextFd
          /\ openLog' = Append(openLog, "epoll")
          /\ pc' = "init_button_gpio"
          /\ UNCHANGED errs
       \/ /\ epollFd' = InvalidFd
          /\ errs' = errs \cup {"CreateEpollFd"}
          /\ pc' = "init_failed"
          /\ UNCHANGED openLog
    /\ UNCHANGED <<ledBlinkRateButtonGpioFd, buttonPollTimerFd, blinkingLedGpioFd,
                   blinkingLedTimerFd, i2cFd, gpioOut, timerPeriod>>
    /\ InitUnchanged

\* lines 145-150
InitButtonGpio ==
    /\ pc = "init_button_gpio"
    /\ initLog' = Append(initLog, "GPIO_OpenAsInput")
    /\ \/ /\ ledBlinkRateButtonGpioFd' = NextFd
          /\ openLog' = Append(openLog, "buttonGpio")
          /\ pc' = "init_button_timer"
          /\ UNCHANGED errs
       \/ /\ ledBlinkRateButtonGpioFd' = InvalidFd
          /\ errs' = errs \cup {"GPIO_OpenAsInput"}
          /\ pc' = "init_failed"
          /\ UNCHANGED openLog
    /\ UNCHANGED <<epollFd, buttonPollTimerFd, blinkingLedGpioFd,
                   blinkingLedTimerFd, i2cFd, gpioOut, timerPeriod>>
    /\ InitUnchanged

\* lines 151-156
InitButtonTimer ==
    /\ pc = "init_button_timer"
    /\ initLog' = Append(initLog, "CreateTimerFd_button")
    /\ \/ /\ buttonPollTimerFd' = NextFd
          /\ openLog' = Append(openLog, "buttonTimer")
          /\ pc' = "init_led_gpio"
          /\ UNCHANGED errs
       \/ /\ buttonPollTimerFd' = InvalidFd
          /\ errs' = errs \cup {"CreateTimerFd_button"}
          /\ pc' = "init_failed"
          /\ UNCHANGED openLog
    /\ UNCHANGED <<epollFd, ledBlinkRateButtonGpioFd, blinkingLedGpioFd,
                   blinkingLedTimerFd, i2cFd, gpioOut, timerPeriod>>
    /\ InitUnchanged

\* lines 159-165: the line is opened as output with initial value High (off)
InitLedGpio ==
    /\ pc = "init_led_gpio"
    /\ initLog' = Append(initLog, "GPIO_OpenAsOutput")
    /\ \/ /\ blinkingLedGpioFd' = NextFd
          /\ openLog' = Append(openLog, "ledGpio")
          /\ gpioOut' = GPIO_Value_High
          /\ pc' = "init_led_timer"
          /\ UNCHANGED errs
       \/ /\ blinkingLedGpioFd' = InvalidFd
          /\ errs' = errs \cup {"GPIO_OpenAsOutput"}
          /\ pc' = "init_failed"
          /\ UNCHANGED <<openLog, gpioOut>>
    /\ UNCHANGED <<epollFd, ledBlinkRateButtonGpioFd, buttonPollTimerFd,
                   blinkingLedTimerFd, i2cFd, timerPeriod>>
    /\ InitUnchanged

\* lines 166-170: the blink timer is created with blinkIntervals[blinkIntervalIndex]
\* (C arrays are 0-based, TLA+ sequences 1-based)
InitLedTimer ==
    /\ pc = "init_led_timer"
    /\ initLog' = Append(initLog, "CreateTimerFd_led")
    /\ \/ /\ blinkingLedTimerFd' = NextFd
          /\ openLog' = Append(openLog, "ledTimer")
          /\ timerPeriod' = blinkIntervals[blinkIntervalIndex + 1]
          /\ pc' = "init_i2c_open"
          /\ UNCHANGED errs
       \/ /\ blinkingLedTimerFd' = InvalidFd
          /\ errs' = errs \cup {"CreateTimerFd_led"}
          /\ pc' = "init_failed"
          /\ UNCHANGED <<openLog, timerPeriod>>
    /\ UNCHANGED <<epollFd, ledBlinkRateButtonGpioFd, buttonPollTimerFd,
                   blinkingLedGpioFd, i2cFd, gpioOut>>
    /\ InitUnchanged

\* lines 173-176
InitI2cOpen ==
    /\ pc = "init_i2c_open"
    /\ initLog' = Append(initLog, "I2CMaster_Open")
    /\ \/ /\ i2cFd' = NextFd
          /\ openLog' = Append(openLog, "i2c")
          /\ pc' = "init_i2c_speed"
          /\ UNCHANGED errs
       \/ /\ i2cFd' = InvalidFd
          /\ errs' = errs \cup {"I2CMaster_Open"}
          /\ pc' = "init_failed"
          /\ UNCHANGED openLog
    /\ UNCHANGED <<epollFd, ledBlinkRateButtonGpioFd, buttonPollTimerFd,
                   blinkingLedGpioFd, blinkingLedTimerFd, gpioOut, timerPeriod>>
    /\ InitUnchanged

\* line 177: I2CMaster_SetBusSpeed returns 0 or -1; the result is not examined
InitI2cSpeed ==
    /\ pc = "init_i2c_speed"
    /\ initLog' = Append(initLog, "I2CMaster_SetBusSpeed")
    /\ \/ UNCHANGED errs
       \/ errs' = errs \cup {"I2CMaster_SetBusSpeed"}
    /\ pc' = "init_oled"
    /\ UNCHANGED <<fdVars, kernelVars>>
    /\ InitUnchanged

\* lines 179-187: display setup, then return 0
InitOled ==
    /\ pc = "init_oled"
    /\ initLog' = Append(initLog, "OLED_Init")
    /\ pc' = "loop"
    /\ UNCHANGED <<fdVars, kernelVars, errs>>
    /\ InitUnchanged

\* a main that does not act on the result of InitPeripheralsAndHandlers
MainInitFailedNoFlag ==
    /\ pc = "init_failed"
    /\ pc' = "loop"
    /\ UNCHANGED <<fdVars, appVars, terminationRequired, closeIdx, exitCode,
                   kernelVars, readyVars, interrupted, histVars, errs>>

\* main, lines 214-216: InitPeripheralsAndHandlers returned -1
MainInitFailed ==
    /\ pc = "init_failed"
    /\ terminationRequired' = TRUE
    /\ pc' = "loop"
    /\ UNCHANGED <<fdVars, appVars, closeIdx, exitCode, kernelVars, readyVars,
                   interrupted, histVars, errs>>

(* ---------------------------------------------------------------------- *)
(* main, lines 218-223: the dispatch loop.                                 *)
(* ---------------------------------------------------------------------- *)
LoopUnchanged ==
    UNCHANGED <<fdVars, appVars, closeIdx, exitCode, kernelVars, nPresses,
                nBlinkFirings, prevRead, initLog, safeWrite>>

\* a loop that never tests the flag
LoopCheckForever ==
    /\ pc = "loop"
    /\ pc' = "call_wait"
    /\ UNCHANGED <<terminationRequired, readyVars, interrupted, waitCalled,
                   handlerRan, handlersSinceFlag, errs>>
    /\ UNCHANGED <<fdVars, appVars, closeIdx, exitCode, kernelVars, nPresses,
                   nBlinkFirings, prevRead, initLog, safeWrite>>

\* line 219: while (!terminationRequired)
LoopCheck ==
    /\ pc = "loop"
    /\ pc' = IF terminationRequired THEN "teardown" ELSE "call_wait"
    /\ UNCHANGED <<terminationRequired, readyVars, interrupted, waitCalled,
                   handlerRan, handlersSinceFlag, errs>>
    /\ LoopUnchanged

\* line 220: WaitForEventAndCallHandler(epollFd) is entered and blocks in epoll_wait
CallWait ==
    /\ pc = "call_wait"
    /\ pc' = "wait"
    /\ waitCalled' = TRUE
    /\ interrupted' = FALSE
    /\ UNCHANGED <<terminationRequired, readyVars, handlerRan, handlersSinceFlag, errs>>
    /\ LoopUnchanged

\* epoll_wait reports the poll timer: its handler is called
WaitDeliverButton ==
    /\ pc = "wait"
    /\ pollReady
    /\ pc' = "button_consume"
    /\ handlerRan' = TRUE
    /\ handlersSinceFlag' = IF terminationRequired THEN Min(handlersSinceFlag + 1, 2)
                                                   ELSE handlersSinceFlag
    /\ interrupted' = FALSE
    /\ UNCHANGED <<terminationRequired, readyVars, waitCalled, errs>>
    /\ LoopUnchanged

\* epoll_wait reports the blink timer: its handler is called
WaitDeliverLed ==
    /\ pc = "wait"
    /\ blinkReady
    /\ pc' = "led_consume"
    /\ handlerRan' = TRUE
    /\ handlersSinceFlag' = IF terminationRequired THEN Min(handlersSinceFlag + 1, 2)
                                                   ELSE handlersSinceFlag
    /\ interrupted' = FALSE
    /\ UNCHANGED <<terminationRequired, readyVars, waitCalled, errs>>
    /\ LoopUnchanged

\* epoll_wait is interrupted by a signal (EINTR): no handler, returns 0
WaitInterrupted ==
    /\ pc = "wait"
    /\ interrupted
    /\ pc' = "loop"
    /\ interrupted' = FALSE
    /\ UNCHANGED <<terminationRequired, readyVars, waitCalled, handlerRan,
                   handlersSinceFlag, errs>>
    /\ LoopUnchanged

\* epoll_wait fails otherwise: returns -1, and line 221 sets the flag
WaitFails ==
    /\ pc = "wait"
    /\ errs' = errs \cup {"WaitForEventAndCallHandler"}
    /\ terminationRequired' = TRUE
    /\ pc' = "loop"
    /\ interrupted' = FALSE
    /\ UNCHANGED <<readyVars, waitCalled, handlerRan, handlersSinceFlag>>
    /\ LoopUnchanged

(* ---------------------------------------------------------------------- *)
(* The timers expire on their own while they exist.                        *)
(* ---------------------------------------------------------------------- *)
PollTimerExpires ==
    /\ IsOpenFd(buttonPollTimerFd)
    /\ ~pollReady
    /\ pollReady' = TRUE
    /\ UNCHANGED <<pc, fdVars, appVars, terminationRequired, closeIdx, exitCode,
                   kernelVars, blinkReady, interrupted, histVars, errs>>

BlinkTimerExpires ==
    /\ IsOpenFd(blinkingLedTimerFd)
    /\ ~blinkReady
    /\ blinkReady' = TRUE
    /\ UNCHANGED <<pc, fdVars, appVars, terminationRequired, closeIdx, exitCode,
                   kernelVars, pollReady, interrupted, histVars, errs>>

(* ---------------------------------------------------------------------- *)
(* BlinkingLedTimerEventHandler, lines 60-75.                              *)
(* ---------------------------------------------------------------------- *)
HandlerUnchanged ==
    UNCHANGED <<fdVars, closeIdx, exitCode, openLog, closeLog, interrupted,
                initLog, waitCalled, handlerRan, handlersSinceFlag, safeWrite>>

\* a toggle that can only switch the LED on
ToggledLedStateStuck(s) == GPIO_Value_Low

\* line 69: the LED is active-low
ToggledLedState(s) == IF s = GPIO_Value_Low THEN GPIO_Value_High ELSE GPIO_Value_Low

\* a handler that goes on without reading the expiration off the timer
LedConsumeNoAck ==
    /\ pc = "led_consume"
    /\ pc' = "led_toggle"
    /\ UNCHANGED <<terminationRequired, errs, nBlinkFirings, blinkReady>>
    /\ UNCHANGED <<appVars, gpioOut, timerPeriod, pollReady, nPresses, prevRead>>
    /\ UNCHANGED <<fdVars, closeIdx, exitCode, openLog, closeLog, interrupted,
                   initLog, waitCalled, handlerRan, handlersSinceFlag, safeWrite>>

\* lines 62-65: ConsumeTimerFdEvent(blinkingLedTimerFd); on failure the
\* handler sets the flag and returns
LedConsume ==
    /\ pc = "led_consume"
    /\ \/ /\ blinkReady' = FALSE
          /\ pc' = "led_toggle"
          /\ UNCHANGED <<terminationRequired, errs, nBlinkFirings>>
       \/ /\ errs' = errs \cup {"ConsumeTimerFdEvent_led"}
          /\ terminationRequired' = TRUE
          /\ nBlinkFirings' = Min(nBlinkFirings + 1, MaxBlinkFirings)
          /\ pc' = "loop"
          /\ UNCHANGED blinkReady
    /\ UNCHANGED <<appVars, gpioOut, timerPeriod, pollReady, nPresses, prevRead>>
    /\ HandlerUnchanged

\* a handler that carries on after a failed write
LedToggleIgnoringFailure ==
    /\ pc = "led_toggle"
    /\ ledState' = ToggledLedState(ledState)
    /\ \/ /\ gpioOut' = ledState'
          /\ UNCHANGED <<terminationRequired, errs>>
       \/ /\ errs' = errs \cup {"GPIO_SetValue"}
          /\ UNCHANGED <<terminationRequired, gpioOut>>
    /\ nBlinkFirings' = Min(nBlinkFirings + 1, MaxBlinkFirings)
    /\ pc' = "loop"
    /\ UNCHANGED <<buttonState, blinkIntervalIndex, newButtonState, timerPeriod,
                   readyVars, nPresses, prevRead>>
    /\ HandlerUnchanged

\* a handler that writes the level before toggling it
LedToggleWritesOld ==
    /\ pc = "led_toggle"
    /\ ledState' = ToggledLedState(ledState)
    /\ \/ /\ gpioOut' = ledState
          /\ UNCHANGED <<terminationRequired, errs>>
       \/ /\ errs' = errs \cup {"GPIO_SetValue"}
          /\ terminationRequired' = TRUE
          /\ UNCHANGED gpioOut
    /\ nBlinkFirings' = Min(nBlinkFirings + 1, MaxBlinkFirings)
    /\ pc' = "loop"
    /\ UNCHANGED <<buttonState, blinkIntervalIndex, newButtonState, timerPeriod,
                   readyVars, nPresses, prevRead>>
    /\ HandlerUnchanged

\* lines 69-74: toggle ledState and write it to the line; the handler returns
LedToggle ==
    /\ pc = "led_toggle"
    /\ ledState' = ToggledLedState(ledState)
    /\ \/ /\ gpioOut' = ledState'
          /\ UNCHANGED <<terminationRequired, errs>>
       \/ /\ errs' = errs \cup {"GPIO_SetValue"}
          /\ terminationRequired' = TRUE
          /\ UNCHANGED gpioOut
    /\ nBlinkFirings' = Min(nBlinkFirings + 1, MaxBlinkFirings)
    /\ pc' = "loop"
    /\ UNCHANGED <<buttonState, blinkIntervalIndex, newButtonState, timerPeriod,
                   readyVars, nPresses, prevRead>>
    /\ HandlerUnchanged

(* ---------------------------------------------------------------------- *)
(* ButtonTimerEventHandler, lines 80-122.                                  *)
(* ---------------------------------------------------------------------- *)
\* level detection instead of edge detection
PressDetectedByLevel(old, new) == new = GPIO_Value_Low

\* lines 98-99: the button has just been pressed
PressDetected(old, new) == new /= old /\ new = GPIO_Value_Low

\* an index that stops at the last entry instead of wrapping
NextBlinkIntervalIndexClamped(i) == IF i + 1 < numBlinkIntervals THEN i + 1 ELSE i

\* line 115
NextBlinkIntervalIndex(i) == (i + 1) % numBlinkIntervals

\* the period of the entry before the stored index
RearmPeriodStale(i) == blinkIntervals[((i + numBlinkIntervals - 1) % numBlinkIntervals) + 1]

\* line 116: the period handed to SetTimerFdToPeriod, given the stored index
RearmPeriod(i) == blinkIntervals[i + 1]

\* a handler that sets the flag on a failed consume but does not return
ButtonConsumeNoReturn ==
    /\ pc = "button_consume"
    /\ \/ /\ pollReady' = FALSE
          /\ UNCHANGED <<terminationRequired, errs>>
       \/ /\ errs' = errs \cup {"ConsumeTimerFdEvent_button"}
          /\ terminationRequired' = TRUE
          /\ UNCHANGED pollReady
    /\ pc' = "button_read"
    /\ UNCHANGED <<appVars, gpioOut, timerPeriod, blinkReady, nPresses,
                   nBlinkFirings, prevRead>>
    /\ HandlerUnchanged

\* lines 82-85: ConsumeTimerFdEvent(buttonPollTimerFd)
ButtonConsume ==
    /\ pc = "button_consume"
    /\ \/ /\ pollReady' = FALSE
          /\ pc' = "button_read"
          /\ UNCHANGED <<terminationRequired, errs>>
       \/ /\ errs' = errs \cup {"ConsumeTimerFdEvent_button"}
          /\ terminationRequired' = TRUE
          /\ pc' = "loop"
          /\ UNCHANGED pollReady
    /\ UNCHANGED <<appVars, gpioOut, timerPeriod, blinkReady, nPresses,
                   nBlinkFirings, prevRead>>
    /\ HandlerUnchanged

\* a handler that returns on a failed read without setting the flag
ButtonReadNoFlag ==
    /\ pc = "button_read"
    /\ \/ /\ \E level \in GPIO_Value_Type : newButtonState' = level
          /\ pc' = "button_compare"
          /\ UNCHANGED errs
       \/ /\ errs' = errs \cup {"GPIO_GetValue"}
          /\ pc' = "loop"
          /\ UNCHANGED newButtonState
    /\ UNCHANGED <<buttonState, ledState, blinkIntervalIndex, gpioOut, timerPeriod,
                   readyVars, nPresses, nBlinkFirings, prevRead, terminationRequired>>
    /\ HandlerUnchanged

\* lines 88-94: GPIO_GetValue(ledBlinkRateButtonGpioFd, &newButtonState); the
\* level is whatever the button is at; on failure the handler sets the flag
\* and returns
ButtonRead ==
    /\ pc = "button_read"
    /\ \/ /\ \E level \in GPIO_Value_Type : newButtonState' = level
          /\ pc' = "button_compare"
          /\ UNCHANGED <<terminationRequired, errs>>
       \/ /\ errs' = errs \cup {"GPIO_GetValue"}
          /\ terminationRequired' = TRUE
          /\ pc' = "loop"
          /\ UNCHANGED newButtonState
    /\ UNCHANGED <<buttonState, ledState, blinkIntervalIndex, gpioOut, timerPeriod,
                   readyVars, nPresses, nBlinkFirings, prevRead>>
    /\ HandlerUnchanged

\* lines 98-121: on a press, advance the index and rearm the blink timer
\* (the display calls in between return nothing); store the new level
ButtonCompare ==
    /\ pc = "button_compare"
    /\ IF PressDetected(buttonState, newButtonState)
       THEN /\ blinkIntervalIndex' = NextBlinkIntervalIndex(blinkIntervalIndex)
            /\ nPresses' = Min(nPresses + 1, MaxPresses)
            /\ \/ /\ timerPeriod' = RearmPeriod(blinkIntervalIndex')
                  /\ UNCHANGED <<terminationRequired, errs>>
               \/ /\ errs' = errs \cup {"SetTimerFdToPeriod"}
                  /\ terminationRequired' = TRUE
                  /\ UNCHANGED timerPeriod
       ELSE UNCHANGED <<blinkIntervalIndex, nPresses, timerPeriod,
                        terminationRequired, errs>>
    /\ buttonState' = IF newButtonState /= buttonState THEN newButtonState
                                                        ELSE buttonState
    /\ prevRead' = newButtonState
    /\ newButtonState' = "unset"
    /\ pc' = "loop"
    /\ UNCHANGED <<ledState, gpioOut, readyVars, nBlinkFirings>>
    /\ HandlerUnchanged

(* ---------------------------------------------------------------------- *)
(* ClosePeripheralsAndHandlers, lines 193-206, and the end of main.        *)
(* ---------------------------------------------------------------------- *)
\* the descriptors in creation order
TeardownOrderForward ==
    <<"epollFd", "ledBlinkRateButtonGpioFd", "buttonPollTimerFd",
      "blinkingLedGpioFd", "blinkingLedTimerFd">>

\* lines 201-205: the descriptors handed to CloseFdAndPrintError, in order
TeardownOrder ==
    <<"blinkingLedTimerFd", "blinkingLedGpioFd", "buttonPollTimerFd",
      "ledBlinkRateButtonGpioFd", "epollFd">>

FdValue(name) ==
    CASE name = "epollFd" -> epollFd
      [] name = "ledBlinkRateButtonGpioFd" -> ledBlinkRateButtonGpioFd
      [] name = "buttonPollTimerFd" -> buttonPollTimerFd
      [] name = "blinkingLedGpioFd" -> blinkingLedGpioFd
      [] name = "blinkingLedTimerFd" -> blinkingLedTimerFd
      [] name = "i2cFd" -> i2cFd

\* the level that switches the LED on
SafeLevelOn == GPIO_Value_Low

\* line 197: the level teardown leaves on the line (High is off)
SafeLevel == GPIO_Value_High

TeardownUnchanged ==
    UNCHANGED <<fdVars, appVars, terminationRequired, exitCode, openLog,
                timerPeriod, readyVars, interrupted, nPresses, nBlinkFirings,
                prevRead, initLog, waitCalled, handlerRan, handlersSinceFlag>>

\* lines 196-198: leave the LED off; the result of GPIO_SetValue is not examined
TeardownSafeWrite ==
    /\ pc = "teardown"
    /\ IF blinkingLedGpioFd >= 0
       THEN \/ /\ gpioOut' = SafeLevel
               /\ safeWrite' = "ok"
               /\ UNCHANGED errs
            \/ /\ safeWrite' = "failed"
               /\ errs' = errs \cup {"GPIO_SetValue_teardown"}
               /\ UNCHANGED gpioOut
       ELSE UNCHANGED <<gpioOut, safeWrite, errs>>
    /\ pc' = "close_fds"
    /\ UNCHANGED <<closeIdx, closeLog>>
    /\ TeardownUnchanged

\* CloseFdAndPrintError(fd, name): close(fd) when fd >= 0; a failure is only logged
CloseFdAndPrintError(fd) ==
    IF fd >= 0
    THEN /\ closeLog' = Append(closeLog, fd)
         /\ \/ UNCHANGED errs
            \/ errs' = errs \cup {"close"}
    ELSE UNCHANGED <<closeLog, errs>>

\* lines 201-205, one call per step
TeardownClose ==
    /\ pc = "close_fds"
    /\ closeIdx < Len(TeardownOrder)
    /\ CloseFdAndPrintError(FdValue(TeardownOrder[closeIdx + 1]))
    /\ closeIdx' = closeIdx + 1
    /\ UNCHANGED <<pc, gpioOut, safeWrite>>
    /\ TeardownUnchanged

\* an exit status that tells an error from a requested termination
ExitStatusByCause == IF errs = {} THEN "0" ELSE "1"

\* line 227: the status main returns
ExitStatus == "0"

\* lines 226-227: return 0
MainReturn ==
    /\ pc = "close_fds"
    /\ closeIdx = Len(TeardownOrder)
    /\ pc' = "done"
    /\ exitCode' = ExitStatus
    /\ UNCHANGED <<fdVars, appVars, terminationRequired, closeIdx, kernelVars,
                   readyVars, interrupted, histVars, errs>>

(* ---------------------------------------------------------------------- *)
(* Specification                                                           *)
(* ---------------------------------------------------------------------- *)
Next ==
    \/ TerminationHandler
    \/ InitSigaction
    \/ InitEpoll
    \/ InitButtonGpio
    \/ InitButtonTimer
    \/ InitLedGpio
    \/ InitLedTimer
    \/ InitI2cOpen
    \/ InitI2cSpeed
    \/ InitOled
    \/ MainInitFailed
    \/ LoopCheck
    \/ CallWait
    \/ WaitDeliverButton
    \/ WaitDeliverLed
    \/ WaitInterrupted
    \/ WaitFails
    \/ PollTimerExpires
    \/ BlinkTimerExpires
    \/ LedConsume
    \/ LedToggle
    \/ ButtonConsume
    \/ ButtonRead
    \/ ButtonCompare
    \/ TeardownSafeWrite
    \/ TeardownClose
    \/ MainReturn

Spec == Init /\ [][Next]_vars

\* Every step of the single thread of control other than the hand-over of a
\* ready source by epoll_wait: the thread runs whenever it is not blocked.
MainFlowStep ==
    \/ InitSigaction \/ InitEpoll \/ InitButtonGpio \/ InitButtonTimer
    \/ InitLedGpio \/ InitLedTimer \/ InitI2cOpen \/ InitI2cSpeed \/ InitOled
    \/ MainInitFailed \/ LoopCheck \/ CallWait
    \/ LedConsume \/ LedToggle \/ ButtonConsume \/ ButtonRead \/ ButtonCompare
    \/ TeardownSafeWrite \/ TeardownClose \/ MainReturn

\* The running program: the thread keeps taking its steps, and a wait that is
\* entered again and again with a source ready does not pass that source over
\* forever.  Nothing is assumed about the order in which two ready sources
\* are handed over, about timers expiring, about signals or about failures.
LiveSpec ==
    /\ Init
    /\ [][Next]_vars
    /\ WF_vars(MainFlowStep)
    /\ SF_vars(WaitDeliverButton)
    /\ SF_vars(WaitDeliverLed)

\* The running program with its timers running: as LiveSpec, and a periodic
\* timer that exists and has no pending expiration expires again.
TermSpec ==
    /\ LiveSpec
    /\ WF_vars(PollTimerExpires)
    /\ WF_vars(BlinkTimerExpires)

TypeOK ==
    /\ blinkIntervalIndex \in 0..(numBlinkIntervals - 1)
    /\ buttonState \in GPIO_Value_Type
    /\ ledState \in GPIO_Value_Type
    /\ terminationRequired \in BOOLEAN
    /\ nPresses \in 0..MaxPresses
    /\ nBlinkFirings \in 0..MaxBlinkFirings

(* ---------------------------------------------------------------------- *)
(* Properties                                                              *)
(* ---------------------------------------------------------------------- *)
NoErrors == errs = {}

\* the calls of InitPeripheralsAndHandlers that can fail
InitCalls ==
    {"CreateEpollFd", "GPIO_OpenAsInput", "CreateTimerFd_button", "GPIO_OpenAsOutput",
     "CreateTimerFd_led", "I2CMaster_Open", "I2CMaster_SetBusSpeed"}

\* number of close() calls made on descriptor fd
CloseCount(fd) == Cardinality({i \in 1..Len(closeLog) : closeLog[i] = fd})

\* the descriptors of the resources opened so far
OpenedFds == {k + 2 : k \in 1..Len(openLog)}

\* C1: starting from index 0, after N press events the blink period index is
\* N mod 3, whatever poll ticks, blink firings and termination requests are
\* interleaved (N below the saturation point of the press counter).
C1_IndexIsPressCountMod3 ==
    nPresses < MaxPresses => blinkIntervalIndex = nPresses % numBlinkIntervals

C1_Witness ==
    nPresses = 4 /\ blinkIntervalIndex = 1 /\ nBlinkFirings >= 1 /\ terminationRequired

\* C2: a poll tick that reaches the comparison advances the index (and rearms
\* the blink timer or fails doing so) if and only if the stored buttonState was
\* High and the level read is Low; the index never changes anywhere else; and a
\* press never follows a tick that read Low without a tick reading High in
\* between, so consecutive Low reads give one press.
C2_PressIffFallingEdge ==
    [][ /\ (pc = "button_compare" /\ pc' /= pc)
            => /\ (blinkIntervalIndex' /= blinkIntervalIndex)
                      <=> (buttonState = GPIO_Value_High /\ newButtonState = GPIO_Value_Low)
               /\ (blinkIntervalIndex' /= blinkIntervalIndex)
                      => \/ timerPeriod' = blinkIntervals[blinkIntervalIndex' + 1]
                         \/ "SetTimerFdToPeriod" \in errs'
               /\ (blinkIntervalIndex' = blinkIntervalIndex) => timerPeriod' = timerPeriod
        /\ (blinkIntervalIndex' /= blinkIntervalIndex)
            => /\ pc = "button_compare"
               /\ prevRead \in {"unset", GPIO_Value_High}
      ]_vars

C2_Witness ==
    /\ pc = "button_compare"
    /\ nPresses = 2
    /\ prevRead = GPIO_Value_Low
    /\ newButtonState = GPIO_Value_Low

C4_EveryOpenedClosedOnce ==
    pc = "done" => \A fd \in OpenedFds : CloseCount(fd) = 1

\* C5: when the input read of a poll tick fails, the flag is true from then on,
\* buttonState and blinkIntervalIndex keep their values, the main flow goes from
\* the handler's return straight to the loop test and teardown without entering
\* any handler or wait, and teardown issues the write of the safe level High,
\* which is the level of the line whenever that write succeeds.
C5_ReadFailure ==
    [][ /\ ("GPIO_GetValue" \in errs' /\ "GPIO_GetValue" \notin errs)
            => /\ pc = "button_read"
               /\ pc' = "loop"
               /\ UNCHANGED <<buttonState, blinkIntervalIndex>>
        /\ "GPIO_GetValue" \in errs'
            => /\ terminationRequired'
               /\ pc' \in {"loop", "teardown", "close_fds", "done"}
               /\ pc' \in {"close_fds", "done"}
                     => /\ safeWrite' \in {"ok", "failed"}
                        /\ safeWrite' = "ok" => gpioOut' = GPIO_Value_High
        /\ "GPIO_GetValue" \in errs
            => UNCHANGED <<buttonState, blinkIntervalIndex, ledState, timerPeriod>>
      ]_vars

C5_Witness ==
    /\ pc = "done"
    /\ "GPIO_GetValue" \in errs
    /\ nPresses >= 1
    /\ ledState = GPIO_Value_Low
    /\ safeWrite = "ok"
    /\ gpioOut = GPIO_Value_High

\* C6: once the blink timer exists and as long as no rearm has failed, its
\* armed period is blinkIntervals[blinkIntervalIndex]: table[0] at creation,
\* the entry of the already-advanced index after every press.
C6_PeriodMatchesIndex ==
    (blinkingLedTimerFd >= 0 /\ "SetTimerFdToPeriod" \notin errs)
        => timerPeriod = blinkIntervals[blinkIntervalIndex + 1]

C6_Witness ==
    /\ nPresses = 4
    /\ blinkIntervalIndex = 1
    /\ timerPeriod = 250000000
    /\ "SetTimerFdToPeriod" \notin errs

C8_InitFailureAborts ==
    (errs \cap InitCalls /= {})
        => /\ initLog[Len(initLog)] \in errs
           /\ ~waitCalled
           /\ ~handlerRan
           /\ safeWrite /= "none" => "ledGpio" \in Range(openLog)
           /\ pc = "done" => /\ Range(closeLog) = OpenedFds
                             /\ Len(closeLog) = Len(openLog)

\* The same for the steps whose result InitPeripheralsAndHandlers examines
\* (every step but I2CMaster_SetBusSpeed): this part holds.
InitReturnFailureAborts ==
    (errs \cap (InitCalls \ {"I2CMaster_SetBusSpeed"}) /= {})
        => /\ initLog[Len(initLog)] \in errs
           /\ ~waitCalled
           /\ ~handlerRan
           /\ safeWrite /= "none" => "ledGpio" \in Range(openLog)
           /\ pc = "done" => /\ Range(closeLog) = OpenedFds
                             /\ Len(closeLog) = Len(openLog)

\* C9: a run of the termination handler, wherever it preempts the main flow,
\* changes terminationRequired only (and wakes a blocked wait): buttonState,
\* ledState, blinkIntervalIndex, the armed period, the line level, every
\* descriptor and the position of the main flow are the same before and after.
C9_HandlerTouchesOnlyFlag ==
    [][ TerminationHandler
            => UNCHANGED <<pc, buttonState, ledState, blinkIntervalIndex, newButtonState,
                           timerPeriod, gpioOut, fdVars, openLog, closeLog, closeIdx,
                           readyVars, exitCode>>
      ]_vars

\* the flag is true without any failure in the middle of the poll handler
C9_Witness ==
    /\ pc = "button_read"
    /\ terminationRequired
    /\ NoErrors
    /\ ledState = GPIO_Value_Low

\* C10: while the flag stays false, a timer whose expiration is pending is
\* eventually serviced (its handler is run and consumes the expiration): the
\* blink timer is not starved by the poll timer, nor the poll timer by the
\* blink timer, in whichever order a wait hands over two ready sources.
C10_ReadySourceServiced ==
    /\ blinkReady ~> (~blinkReady \/ terminationRequired)
    /\ pollReady ~> (~pollReady \/ terminationRequired)

\* both timers pending at a wait, after both have already been serviced
C10_Witness ==
    /\ pc = "wait"
    /\ pollReady
    /\ blinkReady
    /\ nBlinkFirings >= 1
    /\ prevRead /= "unset"
    /\ ~terminationRequired

\* the calls of teardown that can fail (teardown only logs their failure)
TeardownCalls == {"GPIO_SetValue_teardown", "close"}

\* C11: once any component operation has failed and the step or handler that
\* made the call has returned, terminationRequired is true and the main flow
\* is on its way out (loop test, teardown, end): nothing is retried.
C11_EveryErrorFatal ==
    (errs /= {} /\ pc \notin {"init_failed", "init_oled"})
        => /\ terminationRequired
           /\ pc \in {"loop", "teardown", "close_fds", "done"}

\* The same for every call whose result the code examines (all but
\* I2CMaster_SetBusSpeed): this part holds.
ExaminedErrorIsFatal ==
    (errs \ {"I2CMaster_SetBusSpeed"} /= {} /\ pc /= "init_failed")
        => /\ terminationRequired
           /\ pc \in {"loop", "teardown", "close_fds", "done"}

\* C12: an execution in which teardown's write or a close has failed still
\* ends with every call of teardown made, the flag and the exit status as
\* without the failure, and every opened resource closed.
C12_TeardownClosesAllDespiteFailures ==
    (pc = "done" /\ errs \cap TeardownCalls /= {})
        => /\ closeIdx = Len(TeardownOrder)
           /\ exitCode = "0"
           /\ terminationRequired
           /\ \A fd \in OpenedFds : fd \in Range(closeLog)

\* The descriptors teardown hands to close(): those of its five variables that
\* are valid.
TeardownFds == {FdValue(TeardownOrder[k]) : k \in 1..Len(TeardownOrder)} \ {InvalidFd}

\* Teardown's own closes do not depend on failures: whatever has failed, at the
\* end the closed descriptors are exactly the valid ones among the five that
\* teardown names, each closed once.
TeardownToleratesFailures ==
    pc = "done"
        => /\ closeIdx = Len(TeardownOrder)
           /\ Range(closeLog) = TeardownFds
           /\ \A fd \in TeardownFds : CloseCount(fd) = 1

\* Teardown, once entered, reaches the end of main (checked under LiveSpec).
TeardownTerminates == (pc = "teardown") ~> (pc = "done")

\* C13: main returns 0 on every execution that ends, whether it ended by a
\* termination request, a handler or wait error, or an initialization failure;
\* no status exists before main returns.
C13_ExitCodeZero ==
    /\ pc = "done" => exitCode = "0"
    /\ pc /= "done" => exitCode = "running"

\* the end of an execution that a failed output write terminated
C13_Witness ==
    /\ pc = "done"
    /\ "GPIO_SetValue" \in errs
    /\ exitCode = "0"

\* the positions of the main flow from the loop test that ends the loop onwards
ExitPositions == {"loop", "teardown", "close_fds", "done"}

\* C14: a blink firing whose output write fails sets the flag in that same
\* step, leaves the line as it was and returns; from then on the main flow
\* only leaves (loop test, teardown, end), so the write is not attempted again
\* and no further blink firing is handled (the count of handled firings and
\* ledState stay as they are).
C14_WriteFailureFatal ==
    [][ /\ ("GPIO_SetValue" \in errs' /\ "GPIO_SetValue" \notin errs)
            => /\ pc = "led_toggle"
               /\ pc' = "loop"
               /\ terminationRequired'
               /\ gpioOut' = gpioOut
        /\ "GPIO_SetValue" \in errs
            => /\ terminationRequired'
               /\ pc' \in ExitPositions
               /\ UNCHANGED <<ledState, nBlinkFirings>>
      ]_vars

\* the second firing's write has failed: ledState was toggled back, the line was not
C14_Witness ==
    /\ pc = "teardown"
    /\ "GPIO_SetValue" \in errs
    /\ nBlinkFirings = 2
    /\ ledState = GPIO_Value_High
    /\ gpioOut = GPIO_Value_Low

\* C15: each handler consumes the timer expiration first (the toggle is only
\* reached from a successful consume of the blink timer, the input read only
\* from a successful consume of the poll timer); a failed consume sets the
\* flag and returns at once, and neither then nor later does the blink handler
\* change ledState or write the line, nor the poll handler read the input or
\* change buttonState, blinkIntervalIndex or the armed period.
C15_ConsumeFirst ==
    [][ /\ ("ConsumeTimerFdEvent_led" \in errs' /\ "ConsumeTimerFdEvent_led" \notin errs)
            => /\ pc = "led_consume"
               /\ pc' = "loop"
               /\ terminationRequired'
               /\ UNCHANGED <<ledState, gpioOut>>
        /\ ("ConsumeTimerFdEvent_button" \in errs' /\ "ConsumeTimerFdEvent_button" \notin errs)
            => /\ pc = "button_consume"
               /\ pc' = "loop"
               /\ terminationRequired'
               /\ UNCHANGED <<buttonState, blinkIntervalIndex, timerPeriod,
                              newButtonState, prevRead>>
        /\ (errs \cap {"ConsumeTimerFdEvent_led", "ConsumeTimerFdEvent_button"} /= {})
            => /\ pc' \in ExitPositions
               /\ UNCHANGED <<ledState, buttonState, blinkIntervalIndex, timerPeriod,
                              newButtonState, prevRead>>
        /\ (pc' = "led_toggle" /\ pc /= pc') => (pc = "led_consume" /\ ~blinkReady')
        /\ (pc' = "button_read" /\ pc /= pc') => (pc = "button_consume" /\ ~pollReady')
        /\ ledState' /= ledState => pc = "led_toggle"
        /\ (newButtonState' /= newButtonState /\ newButtonState' /= "unset")
            => pc = "button_read"
      ]_vars

\* the poll handler has returned from a failed consume, after an earlier press
C15_Witness ==
    /\ pc = "loop"
    /\ "ConsumeTimerFdEvent_button" \in errs
    /\ nPresses >= 1
    /\ nBlinkFirings >= 1

\* every descriptor the main flow is about to use at its current position has
\* been created and not been closed
UsedHandlesOpen ==
    /\ pc \in {"call_wait", "wait"} => IsOpenFd(epollFd)
    /\ pc = "led_consume" => IsOpenFd(blinkingLedTimerFd)
    /\ pc = "led_toggle" => IsOpenFd(blinkingLedGpioFd)
    /\ pc = "button_consume" => IsOpenFd(buttonPollTimerFd)
    /\ pc = "button_read" => IsOpenFd(ledBlinkRateButtonGpioFd)
    /\ pc = "button_compare" => IsOpenFd(blinkingLedTimerFd)
    /\ pc = "init_button_timer" => IsOpenFd(epollFd)
    /\ pc = "init_led_timer" => IsOpenFd(epollFd)
    /\ pc \in {"init_i2c_speed", "init_oled"} => IsOpenFd(i2cFd)

\* C16: teardown is entered only from the loop test with the flag true, never
\* a second time, and no handler, wait or initialization step follows it;
\* nothing is closed outside teardown and no descriptor is closed twice; its
\* write is issued once, on an open line; and wherever the main flow stands,
\* the descriptors it is about to use are created and not closed.
C16_TeardownOnceAfterLoop ==
    [][ /\ (pc' = "teardown" /\ pc /= "teardown") => (pc = "loop" /\ terminationRequired)
        /\ pc \in {"teardown", "close_fds", "done"}
            => /\ pc' \in {"teardown", "close_fds", "done"}
               /\ pc' = "teardown" => pc = "teardown"
        /\ closeLog' /= closeLog => pc = "close_fds"
        /\ \A i, j \in 1..Len(closeLog') : i /= j => closeLog'[i] /= closeLog'[j]
        /\ safeWrite /= "none" => safeWrite' = safeWrite
        /\ safeWrite' /= safeWrite => IsOpenFd(blinkingLedGpioFd)
        /\ UsedHandlesOpen'
      ]_vars

\* the end of an execution in which handlers ran and all five closes were made
C16_Witness ==
    /\ pc = "done"
    /\ handlerRan
    /\ nPresses >= 1
    /\ Len(closeLog) = 5

\* C17: with the main flow and the timers running, once terminationRequired is
\* true (set by a termination request at any position, or by an error) the
\* main flow reaches the end of main, teardown done (so no wait entered with
\* the flag already true blocks forever), and the flag is never reset.
C17_TerminationRequestHonoured ==
    /\ terminationRequired ~> (pc = "done")
    /\ [][terminationRequired => terminationRequired']_vars

\* the request arrived between the loop test and the wait: the main flow is
\* blocked with the flag true, no timer pending and no interruption
C17_Witness ==
    /\ pc = "wait"
    /\ terminationRequired
    /\ ~interrupted
    /\ ~pollReady
    /\ ~blinkReady
    /\ NoErrors

\* the calls made by the two event handlers
HandlerCalls ==
    {"ConsumeTimerFdEvent_led", "ConsumeTimerFdEvent_button", "GPIO_GetValue",
     "GPIO_SetValue", "SetTimerFdToPeriod"}

\* C18: once a call of an event handler has failed, no handler is invoked any
\* more; whatever set the flag (an error or a termination request at any
\* position), at most one handler invocation begins with the flag already true,
\* and after it has begun no wait is entered again; once the main flow is past
\* its last handler, ledState and blinkIntervalIndex stay as they are.
C18_AtMostOneHandlerAfterFlag ==
    [][ /\ handlersSinceFlag' <= 1
        /\ (errs \cap HandlerCalls /= {})
            => /\ handlersSinceFlag' = handlersSinceFlag
               /\ pc' \in ExitPositions
        /\ handlersSinceFlag >= 1 => pc' \notin {"call_wait", "wait"}
        /\ (terminationRequired /\ pc \in ExitPositions)
            => /\ pc' \in ExitPositions
               /\ UNCHANGED <<ledState, blinkIntervalIndex, buttonState, timerPeriod>>
      ]_vars

\* a blink handler entered after a termination request is about to toggle
C18_Witness ==
    /\ pc = "led_toggle"
    /\ handlersSinceFlag = 1
    /\ terminationRequired
    /\ NoErrors

\* C19: before teardown has written the line and as long as no write of the
\* blink handler has failed, ledState is the level driven on the output line
\* (High while the line is not yet opened, as it is opened with High); the
\* steps of the poll handler change neither.
C19_LedStateIsLineLevel ==
    /\ [](("GPIO_SetValue" \notin errs /\ pc \notin {"close_fds", "done"})
             => ledState = IF gpioOut = "unset" THEN GPIO_Value_High ELSE gpioOut)
    /\ [][(pc \in {"button_consume", "button_read", "button_compare"} /\ pc' /= pc)
             => UNCHANGED <<ledState, gpioOut>>]_vars

C19_Witness ==
    /\ nBlinkFirings = 3
    /\ nPresses >= 2
    /\ ledState = GPIO_Value_Low
    /\ gpioOut = GPIO_Value_Low
    /\ "GPIO_SetValue" \notin errs

\* C20: the steps of the blink handler leave buttonState, blinkIntervalIndex
\* and the armed period unchanged; the steps of the poll handler leave ledState
\* and the line level unchanged; and the comparison of a poll tick that read
\* the stored level changes none of them, nor the flag, the descriptors or the
\* press count.
C20_DisjointEffects ==
    [][ /\ (pc \in {"led_consume", "led_toggle"} /\ pc' /= pc)
            => UNCHANGED <<buttonState, blinkIntervalIndex, timerPeriod, nPresses>>
        /\ (pc \in {"button_consume", "button_read", "button_compare"} /\ pc' /= pc)
            => UNCHANGED <<ledState, gpioOut, nBlinkFirings>>
        /\ (pc = "button_compare" /\ pc' /= pc /\ newButtonState = buttonState)
            => UNCHANGED <<buttonState, blinkIntervalIndex, timerPeriod, ledState,
                           gpioOut, terminationRequired, fdVars, openLog, closeLog,
                           nPresses, errs>>
      ]_vars

\* a poll tick has read Low while Low is stored, after a press and a blink
C20_Witness ==
    /\ pc = "button_compare"
    /\ newButtonState = buttonState
    /\ buttonState = GPIO_Value_Low
    /\ nPresses >= 1
    /\ nBlinkFirings >= 1

====
